---------------------------- MODULE Spec2Model ----------------------------
(***************************************************************************)
(* Sorting visualizer: the step recorder (bubbleSort, quickSort of         *)
(* lib/algorithms/sortingAlgorithms.ts) and the playback controller (the   *)
(* SortingVisualizer React component).                                     *)
(*                                                                         *)
(* Indices in steps are the 0-based indices of the source; a TLA+ sequence *)
(* is 1-based, so arr[j] of the source is arr[j + 1] here.                 *)
(***************************************************************************)
EXTENDS Integers, Sequences, FiniteSets, TLC

\* Bounds of the model.
MaxLen == 5        \* longest input array handed to the recorders
MaxVal == 3        \* values of the recorders' input arrays range over 1..MaxVal
MaxRandom == 2     \* generateRandomArray(arraySize, max) draws from 1..MaxRandom
MaxSize == 3       \* the array-size slider ranges over 2..MaxSize
MaxSpeed == 2      \* the speed slider ranges over 1..MaxSpeed

VARIABLES
    array,         \* useState<number[]>        the base array
    sortSteps,     \* useState<SortStep[]>      the recorded step sequence
    currentStep,   \* useState<number>          index of the displayed step
    algorithm,     \* useState<AlgorithmType>   "bubble" | "quick"
    speed,         \* useState<number>
    isPlaying,     \* useState<boolean>
    arraySize,     \* useState<number>
    stepsId,       \* identity of the sortSteps array object (effect dependency)
    timers,        \* pending setTimeout callbacks: records [h, sid, period]
    timeout,       \* handle the animation effect's cleanup will clear, 0 if none
    op,            \* the handler that ran last
    pre            \* isPlaying and currentStep as that handler found them

vars == <<array, sortSteps, currentStep, algorithm, speed, isPlaying,
          arraySize, stepsId, timers, timeout, op, pre>>

-----------------------------------------------------------------------------
(* SortStep and the two recorders.                                         *)

Null == <<>>

SortStep(arr, cmp, swp) == [array |-> arr, comparing |-> cmp, swapping |-> swp]

\* steps.push({ array: [...arr], comparing: null, swapping: [p, q] })
SwapStepOneBased(arr, p, q) == SortStep(arr, Null, <<p + 1, q + 1>>)
SwapStepBoth(arr, p, q) == SortStep(arr, <<p, q>>, <<p, q>>)
SwapStepSame(arr, p, q) == SortStep(arr, Null, <<p, p>>)
SwapStep(arr, p, q) == SortStep(arr, Null, <<p, q>>)

\* [arr[p], arr[q]] = [arr[q], arr[p]]  (p, q are 0-based)
SwapElemsNone(arr, p, q) == arr
SwapElemsClobber(arr, p, q) ==
    [k \in 1..Len(arr) |-> IF k = p + 1 THEN arr[q + 1] ELSE arr[k]]
SwapElems(arr, p, q) ==
    [k \in 1..Len(arr) |->
        IF k = p + 1 THEN arr[q + 1] ELSE IF k = q + 1 THEN arr[p + 1] ELSE arr[k]]

\* const array = [...inputArray]: the working array of a recorder; shared
\* tells whether writes to it reach the caller's array
SpreadCopyAlias(inputArray) == [array |-> inputArray, shared |-> TRUE]
SpreadCopy(inputArray) == [array |-> inputArray, shared |-> FALSE]

\* if (array[j] > array[j + 1])
BubbleInvertedGe(arr, j) == arr[j + 1] >= arr[j + 2]
BubbleInvertedLt(arr, j) == arr[j + 1] < arr[j + 2]
BubbleInverted(arr, j) == arr[j + 1] > arr[j + 2]

\* inner loop condition: j < n - i - 1
BubbleInnerCondFull(n, i, j) == j < n - 1
BubbleInnerCond(n, i, j) == j < n - i - 1

\* outer loop condition: i < n - 1
BubbleOuterCondShort(n, i) == i < n - 2
BubbleOuterCond(n, i) == i < n - 1

RECURSIVE BubbleLoop(_, _, _, _)
BubbleLoop(arr, steps, i, j) ==
    LET n == Len(arr) IN
    IF ~BubbleOuterCond(n, i) THEN steps
    ELSE IF ~BubbleInnerCond(n, i, j) THEN BubbleLoop(arr, steps, i + 1, 0)
    ELSE LET s1 == Append(steps, SortStep(arr, <<j, j + 1>>, Null)) IN
         IF BubbleInverted(arr, j)
         THEN LET s2 == Append(s1, SwapStep(arr, j, j + 1))
                  a2 == SwapElems(arr, j, j + 1)
                  s3 == Append(s2, SortStep(a2, Null, Null))
              IN  BubbleLoop(a2, s3, i, j + 1)
         ELSE BubbleLoop(arr, s1, i, j + 1)

bubbleSort(inputArray) == BubbleLoop(SpreadCopy(inputArray).array, <<>>, 0, 0)

\* the caller's array once bubbleSort has returned
bubbleSortInput(inputArray) ==
    IF SpreadCopy(inputArray).shared /\ bubbleSort(inputArray) # <<>>
    THEN bubbleSort(inputArray)[Len(bubbleSort(inputArray))].array
    ELSE inputArray

\* if (arr[j] <= pivot)
QuickBelowPivotGe(arr, j, pivot) == arr[j + 1] >= pivot
QuickBelowPivotLt(arr, j, pivot) == arr[j + 1] < pivot
QuickBelowPivot(arr, j, pivot) == arr[j + 1] <= pivot

\* for (let j = low; j < high; j++) { ... } of partition
RECURSIVE PartitionLoop(_, _, _, _, _, _)
PartitionLoop(arr, steps, high, pivot, i, j) ==
    IF ~(j < high) THEN [arr |-> arr, steps |-> steps, i |-> i]
    ELSE LET s1 == Append(steps, SortStep(arr, <<j, high>>, Null)) IN
         IF QuickBelowPivot(arr, j, pivot)
         THEN LET i2 == i + 1
                  s2 == Append(s1, SwapStep(arr, i2, j))
                  a2 == SwapElems(arr, i2, j)
                  s3 == Append(s2, SortStep(a2, Null, Null))
              IN  PartitionLoop(a2, s3, high, pivot, i2, j + 1)
         ELSE PartitionLoop(arr, s1, high, pivot, i, j + 1)

\* the value of a one-element set: { e(x) : x \in {v} } binds x to the value
\* of v, which is then computed once
TheOne(S) == CHOOSE x \in S : TRUE

partition(arr, steps, low, high) ==
    TheOne({ LET s4 == Append(r.steps, SwapStep(r.arr, r.i + 1, high))
                 a3 == SwapElems(r.arr, r.i + 1, high)
             IN  [arr |-> a3, steps |-> Append(s4, SortStep(a3, Null, Null)),
                  pivotIndex |-> r.i + 1]
             : r \in {PartitionLoop(arr, steps, high, arr[high + 1], low - 1, low)} })

\* if (low < high)
QuickRangeCondLe(low, high) == low <= high
QuickRangeCond(low, high) == low < high

RECURSIVE quickSortHelperRightFirst(_, _, _, _)
quickSortHelperRightFirst(arr, steps, low, high) ==
    IF QuickRangeCond(low, high)
    THEN TheOne({ TheOne({ quickSortHelperRightFirst(l.arr, l.steps, low,
                                                     p.pivotIndex - 1)
                           : l \in {quickSortHelperRightFirst(p.arr, p.steps,
                                        p.pivotIndex + 1, high)} })
                  : p \in {partition(arr, steps, low, high)} })
    ELSE [arr |-> arr, steps |-> steps]

RECURSIVE quickSortHelper(_, _, _, _)
quickSortHelper(arr, steps, low, high) ==
    IF QuickRangeCond(low, high)
    THEN TheOne({ TheOne({ quickSortHelper(l.arr, l.steps, p.pivotIndex + 1, high)
                           : l \in {quickSortHelper(p.arr, p.steps, low,
                                                    p.pivotIndex - 1)} })
                  : p \in {partition(arr, steps, low, high)} })
    ELSE [arr |-> arr, steps |-> steps]

quickSort(inputArray) ==
    quickSortHelper(SpreadCopy(inputArray).array, <<>>, 0,
                    Len(inputArray) - 1).steps

\* the caller's array once quickSort has returned
quickSortInput(inputArray) ==
    IF SpreadCopy(inputArray).shared
    THEN quickSortHelper(SpreadCopy(inputArray).array, <<>>, 0,
                         Len(inputArray) - 1).arr
    ELSE inputArray


-----------------------------------------------------------------------------
(* The playback controller.  A handler runs, React re-renders, and the     *)
(* effects whose dependencies changed run (cleanups first, then bodies in  *)
(* declaration order); state set by an effect causes another render.  One  *)
(* action is one handler together with the renders and effects it causes.  *)
(* The slider ranges 5..100 (size) and 1..100 (speed) and the value range  *)
(* 1..100 are scaled down to 2..MaxSize, 1..MaxSpeed and 1..MaxRandom; every  *)
(* size is at least 2, so that a recorded sequence is never empty, as in   *)
(* the program.  animationRef is never assigned and is left out.           *)

Algorithms == {"bubble", "quick"}
ArraySizes == 2..MaxSize
Speeds == 1..MaxSpeed
IdMod == 3
\* the values Math.random() yields for an array of the given size
RandomSources(size) == [1..size -> 1..MaxRandom]

\* handed to Settle by the handlers that cannot reach resetArray
NoRandom == <<>>

\* Array.from({ length: size }, () => Math.floor(Math.random() * max) + 1)
generateRandomArrayShort(size, rnd) == [k \in 1..(size - 1) |-> rnd[k]]
generateRandomArray(size, rnd) == [k \in 1..size |-> rnd[k]]

\* the component's state as a record; arrayId is the identity of `array`
\* within one action
Snapshot ==
    [array |-> array, arrayId |-> 0, sortSteps |-> sortSteps,
     stepsId |-> stepsId, currentStep |-> currentStep,
     algorithm |-> algorithm, speed |-> speed, isPlaying |-> isPlaying,
     arraySize |-> arraySize, timers |-> timers, timeout |-> timeout]

\* a setSortSteps call stores a new array object
NewStepsId(id) == (id + 1) % IdMod

\* [isPlaying, currentStep, sortSteps, speed]
AnimDepsNoSteps(prev, cur) ==
    \/ prev.isPlaying # cur.isPlaying
    \/ prev.currentStep # cur.currentStep
    \/ prev.speed # cur.speed
AnimDepsNoSpeed(prev, cur) ==
    \/ prev.isPlaying # cur.isPlaying
    \/ prev.currentStep # cur.currentStep
    \/ prev.stepsId # cur.stepsId
AnimDepsChanged(prev, cur) ==
    \/ prev.isPlaying # cur.isPlaying
    \/ prev.currentStep # cur.currentStep
    \/ prev.stepsId # cur.stepsId
    \/ prev.speed # cur.speed

\* [array, algorithm]
RecomputeDepsArrayOnly(prev, cur) == prev.arrayId # cur.arrayId
RecomputeDepsWithStep(prev, cur) ==
    \/ prev.arrayId # cur.arrayId
    \/ prev.algorithm # cur.algorithm
    \/ prev.currentStep # cur.currentStep
RecomputeDepsChanged(prev, cur) ==
    \/ prev.arrayId # cur.arrayId
    \/ prev.algorithm # cur.algorithm

\* [arraySize]  (variant: [resetArray], memoized on [arraySize])
InitDepsChanged(prev, cur) == prev.arraySize # cur.arraySize

\* return () => clearTimeout(timeout)
AnimCleanupNone(st) == st
AnimCleanup(st) ==
    IF st.timeout # 0
    THEN [st EXCEPT !.timers = {t \in @ : t.h # st.timeout}]
    ELSE st

\* setTimeout(..., 1000 / speed): the delay, in whole milliseconds
Period(sp) == 1000 \div sp

FreshHandle(ts) ==
    CHOOSE h \in 1..(Cardinality(ts) + 1) : \A t \in ts : t.h # h

\* currentStep >= sortSteps.length - 1
AtEndStrict(st) == st.currentStep > Len(st.sortSteps) - 1
AtEnd(st) == st.currentStep >= Len(st.sortSteps) - 1

\* body of the animation effect: cur is the render it closes over, nx the
\* state being built by this pass
AnimEffectNoStop(cur, nx) ==
    IF ~cur.isPlaying \/ AtEnd(cur)
    THEN [nx EXCEPT !.timeout = 0]
    ELSE LET h == FreshHandle(nx.timers) IN
         [nx EXCEPT !.timers = @ \cup {[h |-> h, sid |-> cur.stepsId,
                                         period |-> Period(cur.speed)]},
                    !.timeout = h]
AnimEffect(cur, nx) ==
    IF ~cur.isPlaying \/ AtEnd(cur)
    THEN [(IF cur.isPlaying /\ AtEnd(cur)
           THEN [nx EXCEPT !.isPlaying = FALSE] ELSE nx)
          EXCEPT !.timeout = 0]
    ELSE LET h == FreshHandle(nx.timers) IN
         [nx EXCEPT !.timers = @ \cup {[h |-> h, sid |-> cur.stepsId,
                                         period |-> Period(cur.speed)]},
                    !.timeout = h]

\* body of the recompute-steps effect
RecomputeEffectKeepStep(cur, nx) ==
    IF Len(cur.array) = 0 THEN nx
    ELSE LET steps == IF cur.algorithm = "bubble"
                      THEN bubbleSort(cur.array) ELSE quickSort(cur.array)
         IN  [nx EXCEPT !.sortSteps = steps, !.stepsId = NewStepsId(@)]
RecomputeEffect(cur, nx) ==
    IF Len(cur.array) = 0 THEN nx
    ELSE LET steps == IF cur.algorithm = "bubble"
                      THEN bubbleSort(cur.array) ELSE quickSort(cur.array)
         IN  [nx EXCEPT !.sortSteps = steps, !.stepsId = NewStepsId(@),
                        !.currentStep = -1]

\* resetArray as closed over by render cur
resetArray(cur, nx, rnd) ==
    [nx EXCEPT !.isPlaying = FALSE,
               !.array = generateRandomArray(cur.arraySize, rnd),
               !.arrayId = 1 - @,
               !.sortSteps = <<>>, !.stepsId = NewStepsId(@),
               !.currentStep = -1]

\* the effects of one commit; on mount every effect runs and none cleans up
EffectPass(prev, cur, mount, rnd) ==
    LET runAnim == mount \/ AnimDepsChanged(prev, cur)
        runRec  == mount \/ RecomputeDepsChanged(prev, cur)
        runInit == mount \/ InitDepsChanged(prev, cur)
        s0 == IF runAnim /\ ~mount THEN AnimCleanup(cur) ELSE cur
        s1 == IF runAnim THEN AnimEffect(cur, s0) ELSE s0
        s2 == IF runRec THEN RecomputeEffect(cur, s1) ELSE s1
    IN  IF runInit THEN resetArray(cur, s2, rnd) ELSE s2

RECURSIVE Settle(_, _, _)
Settle(prev, cur, rnd) ==
    IF \/ AnimDepsChanged(prev, cur)
       \/ RecomputeDepsChanged(prev, cur)
       \/ InitDepsChanged(prev, cur)
    THEN TheOne({ Settle(cur, nx, rnd)
                  : nx \in {EffectPass(prev, cur, FALSE, rnd)} })
    ELSE cur

Commit(st, name) ==
    /\ array' = st.array
    /\ sortSteps' = st.sortSteps
    /\ stepsId' = st.stepsId
    /\ currentStep' = st.currentStep
    /\ algorithm' = st.algorithm
    /\ speed' = st.speed
    /\ isPlaying' = st.isPlaying
    /\ arraySize' = st.arraySize
    /\ timers' = st.timers
    /\ timeout' = st.timeout
    /\ op' = name
    /\ pre' = [isPlaying |-> isPlaying, currentStep |-> currentStep]

\* a handler has left state `after`: render, run the effects, commit
Handle(after, rnd, name) ==
    \E cur \in {after} :
        \E fin \in {Settle(Snapshot, cur, rnd)} : Commit(fin, name)

Mounted ==
    op \notin {"init", "input", "bubbleSort", "quickSort", "bubbleSortAgain",
               "quickSortAgain"}

Init ==
    /\ array = <<>>
    /\ sortSteps = <<>>
    /\ currentStep = -1
    /\ algorithm = "bubble"
    /\ speed = 1
    /\ isPlaying = FALSE
    /\ arraySize = 2
    /\ stepsId = 0
    /\ timers = {}
    /\ timeout = 0
    /\ op = "init"
    /\ pre = [isPlaying |-> FALSE, currentStep |-> -1]

\* first render: all three effects run
Mount ==
    /\ op = "init"
    /\ \E rnd \in RandomSources(arraySize) :
         Handle(EffectPass(Snapshot, Snapshot, TRUE, rnd), rnd, "mount")

\* Generate New Array: onClick={resetArray}
GenerateNewArray ==
    /\ Mounted
    /\ \E rnd \in RandomSources(arraySize) :
         Handle(resetArray(Snapshot, Snapshot, rnd), rnd, "resetArray")

\* size slider: onChange={(e) => setArraySize(parseInt(e.target.value))}
ChangeSize ==
    /\ Mounted
    /\ \E n \in ArraySizes \ {arraySize} : \E rnd \in RandomSources(n) :
         Handle([Snapshot EXCEPT !.arraySize = n], rnd, "sizeChange")

\* algorithm select: onChange={(e) => setAlgorithm(e.target.value)}
ChangeAlgorithm ==
    /\ Mounted
    /\ \E a \in Algorithms \ {algorithm} :
         Handle([Snapshot EXCEPT !.algorithm = a], NoRandom, "algorithmChange")

\* speed slider: onChange={(e) => setSpeed(parseInt(e.target.value))}
ChangeSpeed ==
    /\ Mounted
    /\ \E s \in Speeds \ {speed} :
         Handle([Snapshot EXCEPT !.speed = s], NoRandom, "speedChange")

\* startSort, behind the Play button (disabled={isPlaying})
startSortNoRewind(st) == [st EXCEPT !.isPlaying = TRUE]
startSort(st) ==
    [(IF AtEnd(st) THEN [st EXCEPT !.currentStep = -1] ELSE st)
     EXCEPT !.isPlaying = TRUE]

Play ==
    /\ Mounted
    /\ ~isPlaying
    /\ Handle(startSort(Snapshot), NoRandom, "startSort")

\* pauseSort, behind the Pause button (disabled={!isPlaying})
pauseSortRewind(st) == [st EXCEPT !.isPlaying = FALSE, !.currentStep = -1]
pauseSort(st) == [st EXCEPT !.isPlaying = FALSE]

Pause ==
    /\ Mounted
    /\ isPlaying
    /\ Handle(pauseSort(Snapshot), NoRandom, "pauseSort")

Max(a, b) == IF a >= b THEN a ELSE b
MinAsMax(a, b) == IF a >= b THEN a ELSE b
Min(a, b) == IF a <= b THEN a ELSE b

\* Previous Step (disabled={currentStep <= 0})
PreviousStep ==
    /\ Mounted
    /\ ~(currentStep <= 0)
    /\ Handle([Snapshot EXCEPT !.currentStep = Max(0, @ - 1)], NoRandom,
              "prevStep")

\* Next Step (disabled={currentStep >= sortSteps.length - 1})
NextStepWhenPaused ==
    /\ Mounted
    /\ ~isPlaying
    /\ ~(currentStep >= Len(sortSteps) - 1)
    /\ Handle([Snapshot EXCEPT !.currentStep = Min(Len(sortSteps) - 1, @ + 1)],
              NoRandom, "nextStep")
NextStep ==
    /\ Mounted
    /\ ~(currentStep >= Len(sortSteps) - 1)
    /\ Handle([Snapshot EXCEPT !.currentStep = Min(Len(sortSteps) - 1, @ + 1)],
              NoRandom, "nextStep")

\* a pending timeout fires: setCurrentStep(prev => prev + 1)
TickSkip ==
    /\ Mounted
    /\ \E t \in timers :
         Handle([Snapshot EXCEPT !.timers = @ \ {t}, !.currentStep = @ + 2],
                NoRandom, "tick")
Tick ==
    /\ Mounted
    /\ \E t \in timers :
         Handle([Snapshot EXCEPT !.timers = @ \ {t}, !.currentStep = @ + 1],
                NoRandom, "tick")

Next ==
    \/ Mount
    \/ GenerateNewArray
    \/ ChangeSize
    \/ ChangeAlgorithm
    \/ ChangeSpeed
    \/ Play
    \/ Pause
    \/ PreviousStep
    \/ NextStep
    \/ Tick

Spec == Init /\ [][Next]_vars

\* Playback left alone: once isPlaying is true no user command is issued
\* until playback has stopped; the browser fires every pending timeout.
PlaybackNext ==
    \/ Mount
    \/ ~isPlaying /\ GenerateNewArray
    \/ ~isPlaying /\ ChangeSize
    \/ ~isPlaying /\ ChangeAlgorithm
    \/ ~isPlaying /\ ChangeSpeed
    \/ Play
    \/ ~isPlaying /\ PreviousStep
    \/ ~isPlaying /\ NextStep
    \/ Tick

PlaybackSpec == Init /\ [][PlaybackNext]_vars /\ WF_vars(Tick)

\* the controller on arrays shorter than the size slider allows: the
\* component starts with arraySize 0 or 1
SmallSizes == 0..1

EdgeInit ==
    /\ array = <<>>
    /\ sortSteps = <<>>
    /\ currentStep = -1
    /\ algorithm = "bubble"
    /\ speed = 1
    /\ isPlaying = FALSE
    /\ arraySize \in SmallSizes
    /\ stepsId = 0
    /\ timers = {}
    /\ timeout = 0
    /\ op = "init"
    /\ pre = [isPlaying |-> FALSE, currentStep |-> -1]

EdgeSpec == EdgeInit /\ [][Next]_vars

\* The variant of the component whose resetArray is
\* useCallback(..., [arraySize]) and whose initialising effect depends on
\* [resetArray].  cbSize is the arraySize the stored callback closed over,
\* cbId the identity of the stored callback.
MemoSnapshot ==
    [array |-> array, arrayId |-> 0, sortSteps |-> sortSteps,
     stepsId |-> stepsId, currentStep |-> currentStep,
     algorithm |-> algorithm, speed |-> speed, isPlaying |-> isPlaying,
     arraySize |-> arraySize, timers |-> timers, timeout |-> timeout,
     cbSize |-> arraySize, cbId |-> 0]

\* useCallback(() => {...}, [arraySize]) in the render of cur after the
\* render of prev
useCallbackNoDeps(prev, cur) == cur
useCallback(prev, cur) ==
    IF prev.arraySize # cur.arraySize
    THEN [cur EXCEPT !.cbSize = cur.arraySize, !.cbId = 1 - @]
    ELSE cur

\* [resetArray]
MemoInitDepsChanged(prev, cur) == prev.cbId # cur.cbId

\* the stored resetArray as held by render cur
MemoResetArray(cur, nx, rnd) ==
    resetArray([cur EXCEPT !.arraySize = cur.cbSize], nx, rnd)

MemoEffectPass(prev, cur, mount, rnd) ==
    LET runAnim == mount \/ AnimDepsChanged(prev, cur)
        runRec  == mount \/ RecomputeDepsChanged(prev, cur)
        runInit == mount \/ MemoInitDepsChanged(prev, cur)
        s0 == IF runAnim /\ ~mount THEN AnimCleanup(cur) ELSE cur
        s1 == IF runAnim THEN AnimEffect(cur, s0) ELSE s0
        s2 == IF runRec THEN RecomputeEffect(cur, s1) ELSE s1
    IN  IF runInit THEN MemoResetArray(cur, s2, rnd) ELSE s2

RECURSIVE MemoSettle(_, _, _)
MemoSettle(prev, after, rnd) ==
    TheOne({ IF \/ AnimDepsChanged(prev, cur)
                \/ RecomputeDepsChanged(prev, cur)
                \/ MemoInitDepsChanged(prev, cur)
             THEN TheOne({ MemoSettle(cur, nx, rnd)
                           : nx \in {MemoEffectPass(prev, cur, FALSE, rnd)} })
             ELSE cur
             : cur \in {useCallback(prev, after)} })

\* the state handler `name` leaves the variant in, the inputs being those
\* of the step taken: the size, algorithm and speed chosen and the array
\* generated are read from the primed variables, t is the timeout that fires
MemoAfter(name, t) ==
    CASE name = "mount" ->
           MemoEffectPass(MemoSnapshot, MemoSnapshot, TRUE, array')
      [] name = "resetArray" ->
           MemoResetArray(MemoSnapshot, MemoSnapshot, array')
      [] name = "sizeChange" -> [MemoSnapshot EXCEPT !.arraySize = arraySize']
      [] name = "algorithmChange" ->
           [MemoSnapshot EXCEPT !.algorithm = algorithm']
      [] name = "speedChange" -> [MemoSnapshot EXCEPT !.speed = speed']
      [] name = "startSort" -> startSort(MemoSnapshot)
      [] name = "pauseSort" -> pauseSort(MemoSnapshot)
      [] name = "prevStep" ->
           [MemoSnapshot EXCEPT !.currentStep = Max(0, @ - 1)]
      [] name = "nextStep" ->
           [MemoSnapshot EXCEPT
               !.currentStep = Min(Len(sortSteps) - 1, @ + 1)]
      [] name = "tick" ->
           [MemoSnapshot EXCEPT !.timers = @ \ {t}, !.currentStep = @ + 1]

\* the variant after the whole handler: renders and effects to the end
MemoHandle(name, t) ==
    TheOne({ MemoSettle(MemoSnapshot, after, array')
             : after \in {MemoAfter(name, t)} })

\* sortSteps[i]: undefined outside 0..length - 1
StepAt(steps, i) ==
    IF i >= 0 /\ i < Len(steps)
    THEN [defined |-> TRUE, step |-> steps[i + 1]]
    ELSE [defined |-> FALSE, step |-> SortStep(<<>>, Null, Null)]

\* currentStep >= 0 && currentStep < sortSteps.length
ViewInRangeNoLower(steps, i) == i < Len(steps)
ViewInRange(steps, i) == i >= 0 /\ i < Len(steps)

\* what the render draws
currentArray ==
    IF ViewInRange(sortSteps, currentStep)
    THEN StepAt(sortSteps, currentStep).step.array ELSE array

currentComparing ==
    IF ViewInRange(sortSteps, currentStep)
    THEN StepAt(sortSteps, currentStep).step.comparing ELSE Null

currentSwapping ==
    IF ViewInRange(sortSteps, currentStep)
    THEN StepAt(sortSteps, currentStep).step.swapping ELSE Null

\* the render reads a property of undefined and throws
renderFault ==
    ViewInRange(sortSteps, currentStep)
        /\ ~StepAt(sortSteps, currentStep).defined

-----------------------------------------------------------------------------
(* The recorders on their own: an input array is drawn, and either         *)
(* recorder is run on it.  array holds the input, sortSteps the result.    *)

RECURSIVE SeqsOfLen(_)
SeqsOfLen(n) ==
    IF n = 0 THEN {<<>>}
    ELSE {Append(s, v) : s \in SeqsOfLen(n - 1), v \in 1..MaxVal}

\* every array up to MaxLen over 1..MaxVal, and the array of the documented
\* scenario
Inputs == UNION {SeqsOfLen(n) : n \in 0..MaxLen} \cup {<<5, 3, 1>>}

SortInit ==
    /\ array \in Inputs
    /\ sortSteps = <<>>
    /\ currentStep = -1
    /\ algorithm = "bubble"
    /\ speed = 1
    /\ isPlaying = FALSE
    /\ arraySize = 2
    /\ stepsId = 0
    /\ timers = {}
    /\ timeout = 0
    /\ op = "input"
    /\ pre = [isPlaying |-> FALSE, currentStep |-> -1]

RunBubbleSort ==
    /\ op = "input"
    /\ sortSteps' = bubbleSort(array)
    /\ array' = bubbleSortInput(array)
    /\ op' = "bubbleSort"
    /\ UNCHANGED <<currentStep, algorithm, speed, isPlaying, arraySize,
                   stepsId, timers, timeout, pre>>

RunQuickSort ==
    /\ op = "input"
    /\ sortSteps' = quickSort(array)
    /\ array' = quickSortInput(array)
    /\ op' = "quickSort"
    /\ UNCHANGED <<currentStep, algorithm, speed, isPlaying, arraySize,
                   stepsId, timers, timeout, pre>>

\* the same recorder called a second time on the caller's array
RunBubbleSortAgain ==
    /\ op = "bubbleSort"
    /\ sortSteps' = bubbleSort(array)
    /\ array' = bubbleSortInput(array)
    /\ op' = "bubbleSortAgain"
    /\ UNCHANGED <<currentStep, algorithm, speed, isPlaying, arraySize,
                   stepsId, timers, timeout, pre>>

RunQuickSortAgain ==
    /\ op = "quickSort"
    /\ sortSteps' = quickSort(array)
    /\ array' = quickSortInput(array)
    /\ op' = "quickSortAgain"
    /\ UNCHANGED <<currentStep, algorithm, speed, isPlaying, arraySize,
                   stepsId, timers, timeout, pre>>

SortNext ==
    \/ RunBubbleSort
    \/ RunQuickSort
    \/ RunBubbleSortAgain
    \/ RunQuickSortAgain

SortSpec == SortInit /\ [][SortNext]_vars

-----------------------------------------------------------------------------
(* Properties.                                                             *)

Last(s) == s[Len(s)]

IsAscending(a) == \A k \in 1..(Len(a) - 1) : a[k] <= a[k + 1]

Occurrences(a, v) == Cardinality({k \in 1..Len(a) : a[k] = v})

SameMultiset(a, b) ==
    /\ Len(a) = Len(b)
    /\ \A v \in {a[k] : k \in 1..Len(a)} \cup {b[k] : k \in 1..Len(b)} :
          Occurrences(a, v) = Occurrences(b, v)

\* C1: for an input of at least 2 elements, the array of the last step of
\* bubbleSort is in non-decreasing order and is a permutation of the input.
C1_BubbleLastSorted ==
    (op = "bubbleSort" /\ Len(array) >= 2) =>
        /\ Len(sortSteps) > 0
        /\ IsAscending(Last(sortSteps).array)
        /\ SameMultiset(Last(sortSteps).array, array)

\* bubbleSort has run on an unsorted input with a repeated value
C1_Witness ==
    /\ op = "bubbleSort"
    /\ Len(array) = 3
    /\ ~IsAscending(array)
    /\ array[1] = array[3]
    /\ IsAscending(Last(sortSteps).array)

\* C2: for an input of at least 2 elements, the array of the last step of
\* quickSort is in non-decreasing order and is a permutation of the input.
C2_QuickLastSorted ==
    (op = "quickSort" /\ Len(array) >= 2) =>
        /\ Len(sortSteps) > 0
        /\ IsAscending(Last(sortSteps).array)
        /\ SameMultiset(Last(sortSteps).array, array)

\* quickSort has run on an unsorted input with a repeated value
C2_Witness ==
    /\ op = "quickSort"
    /\ Len(array) = 3
    /\ ~IsAscending(array)
    /\ array[1] = array[2]
    /\ IsAscending(Last(sortSteps).array)

-----------------------------------------------------------------------------
(* Properties of the playback controller.                                  *)

Finished == currentStep = Len(sortSteps) - 1

\* C3: in every reachable state -1 <= currentStep <= sortSteps.length - 1.
C3_IndexInRange == -1 <= currentStep /\ currentStep <= Len(sortSteps) - 1

\* playback or a manual step has reached the last step of a sequence of
\* several steps
C3_Witness ==
    /\ op \in {"tick", "nextStep"}
    /\ Len(sortSteps) >= 3
    /\ currentStep = Len(sortSteps) - 1

\* C4: isPlaying is false whenever currentStep = sortSteps.length - 1.
C4_FinishedNotPlaying == Finished => ~isPlaying

\* a tick of running playback has advanced to the last step
C4_Witness ==
    /\ op = "tick"
    /\ pre.isPlaying
    /\ Finished
    /\ ~isPlaying

\* C5: no pending timer was scheduled against a step sequence other than
\* the current one, and none is pending while not playing; so after a reset
\* (not playing, currentStep = -1) no tick can advance currentStep.
C5_NoStaleTimer ==
    /\ \A t \in timers : t.sid = stepsId
    /\ ~isPlaying => timers = {}

\* the step sequence was replaced while a timer was pending
C5_Witness ==
    /\ op \in {"resetArray", "sizeChange", "algorithmChange"}
    /\ pre.isPlaying
    /\ pre.currentStep >= 0
    /\ currentStep = -1

\* C6: after resetArray (Generate New Array or an array-size change)
\* isPlaying is false, currentStep is -1, the array has arraySize elements
\* and the step sequence is one recorded from the new array.
C6_ResetArray ==
    op \in {"resetArray", "sizeChange"} =>
        /\ ~isPlaying
        /\ currentStep = -1
        /\ Len(array) = arraySize
        /\ Len(sortSteps) > 0
        /\ sortSteps[1].array = array
        /\ \A k \in 1..Len(sortSteps) : Len(sortSteps[k].array) = arraySize

\* the array size was changed to a smaller one during playback
C6_Witness ==
    /\ op = "sizeChange"
    /\ pre.isPlaying
    /\ arraySize = 2
    /\ Len(array) = 2
    /\ ~isPlaying

\* C7: at most one playback timer is pending.
C7_OneTimer == Cardinality(timers) <= 1

\* a timer was rescheduled during playback, by a speed change or a tick
C7_Witness ==
    /\ op \in {"speedChange", "tick"}
    /\ pre.isPlaying
    /\ isPlaying
    /\ Cardinality(timers) = 1

\* C8 as stated: an algorithm change leaves currentStep = -1 and
\* isPlaying = false.
C8_AlgorithmChangeStops ==
    op = "algorithmChange" => currentStep = -1 /\ ~isPlaying

\* C8 as amended: an algorithm change leaves currentStep = -1 and isPlaying
\* as it was.
C8_AlgorithmChangeRewinds ==
    op = "algorithmChange" =>
        currentStep = -1 /\ isPlaying = pre.isPlaying

\* the algorithm was changed during playback, past the first step
C8_Witness ==
    /\ op = "algorithmChange"
    /\ pre.isPlaying
    /\ pre.currentStep > 0
    /\ isPlaying

\* C9: once mounted, sortSteps is the sequence the selected recorder
\* produces for the current array.
C9_StepsMatch ==
    Mounted =>
        sortSteps = IF algorithm = "bubble"
                    THEN bubbleSort(array) ELSE quickSort(array)

\* the algorithm was changed to quick sort on an array for which the two
\* recorders differ
C9_Witness ==
    /\ op = "algorithmChange"
    /\ algorithm = "quick"
    /\ sortSteps = quickSort(array)
    /\ sortSteps # bubbleSort(array)

\* C10: startSort from Finished leaves currentStep = -1, from any other
\* index leaves currentStep unchanged, and leaves isPlaying true with a tick
\* scheduled.
C10_StartSort ==
    op = "startSort" =>
        /\ isPlaying
        /\ timers # {}
        /\ currentStep = IF pre.currentStep >= Len(sortSteps) - 1
                         THEN -1 ELSE pre.currentStep

\* Play was pressed at the last step
C10_Witness ==
    /\ op = "startSort"
    /\ pre.currentStep = Len(sortSteps) - 1
    /\ pre.currentStep > 0
    /\ currentStep = -1
    /\ isPlaying

\* C11: a tick is pending only while playing below the last index, and a
\* tick that fires finds isPlaying true and currentStep below the last index
\* and increases currentStep by exactly 1.
C11_TickAdvancesByOne ==
    /\ timers # {} => isPlaying /\ currentStep < Len(sortSteps) - 1
    /\ op = "tick" =>
          /\ pre.isPlaying
          /\ pre.currentStep < Len(sortSteps) - 1
          /\ currentStep = pre.currentStep + 1

\* a tick has advanced playback from one step to the next, short of the end
C11_Witness ==
    /\ op = "tick"
    /\ pre.currentStep >= 0
    /\ currentStep = pre.currentStep + 1
    /\ currentStep < Len(sortSteps) - 1
    /\ isPlaying

\* C12: left alone, running playback reaches the last step and stops, and
\* in that state no tick is pending.
C12_PlaybackFinishes ==
    /\ isPlaying ~> (Finished /\ ~isPlaying)
    /\ [](Finished /\ ~isPlaying => timers = {})

\* the last tick of a playback has stopped it
C12_Witness ==
    /\ op = "tick"
    /\ Len(sortSteps) >= 2
    /\ pre.currentStep = Len(sortSteps) - 2
    /\ Finished
    /\ ~isPlaying
    /\ timers = {}

\* C13: pauseSort sets isPlaying to false and leaves currentStep, array and
\* sortSteps unchanged.
C13_PauseFrame ==
    [][op' = "pauseSort" =>
          /\ ~isPlaying'
          /\ currentStep' = currentStep
          /\ array' = array
          /\ sortSteps' = sortSteps
          /\ stepsId' = stepsId]_vars

\* playback was paused in the middle of a sequence
C13_Witness ==
    /\ op = "pauseSort"
    /\ pre.isPlaying
    /\ currentStep > 0
    /\ currentStep < Len(sortSteps) - 1
    /\ ~isPlaying

Clamp(x) == Max(0, Min(Len(sortSteps) - 1, x))

\* C14 as stated: a manual step moves currentStep by one within
\* [0, sortSteps.length - 1] and leaves isPlaying as it was.
C14_ManualStepKeepsPlaying ==
    /\ op = "nextStep" =>
          currentStep = Clamp(pre.currentStep + 1) /\ isPlaying = pre.isPlaying
    /\ op = "prevStep" =>
          currentStep = Clamp(pre.currentStep - 1) /\ isPlaying = pre.isPlaying

\* C14 as amended: a manual step moves currentStep by one within
\* [0, sortSteps.length - 1]; isPlaying stays as it was, except that a step
\* onto the last index during playback ends playback.
C14_ManualStep ==
    /\ op = "nextStep" =>
          /\ currentStep = pre.currentStep + 1
          /\ currentStep = Clamp(pre.currentStep + 1)
          /\ isPlaying = (pre.isPlaying /\ currentStep < Len(sortSteps) - 1)
    /\ op = "prevStep" =>
          /\ currentStep = pre.currentStep - 1
          /\ currentStep = Clamp(pre.currentStep - 1)
          /\ isPlaying = pre.isPlaying

\* Next Step was pressed from Idle
C14_Witness ==
    /\ op = "nextStep"
    /\ pre.currentStep = -1
    /\ currentStep = 0
    /\ Len(sortSteps) >= 2

\* C15 as stated: no manual step is made while playback is running.
C15_NoManualStepWhilePlaying ==
    op \in {"nextStep", "prevStep"} => ~pre.isPlaying

\* C15 as amended: Next Step is enabled exactly when currentStep is below
\* the last index and Previous Step exactly when currentStep > 0, whether or
\* not playback is running.
C15_StepControlsEnabled ==
    Mounted =>
        /\ ENABLED NextStep <=> currentStep < Len(sortSteps) - 1
        /\ ENABLED PreviousStep <=> currentStep > 0

\* Next Step was pressed during playback
C15_Witness ==
    /\ op = "nextStep"
    /\ pre.isPlaying
    /\ isPlaying

\* C16: a speed change leaves array, sortSteps, currentStep and isPlaying
\* unchanged and records no new sequence; a tick pending afterwards has the
\* period 1000 / speed of the new speed.
C16_SpeedFrame ==
    [][op' = "speedChange" =>
          /\ array' = array
          /\ sortSteps' = sortSteps
          /\ stepsId' = stepsId
          /\ currentStep' = currentStep
          /\ isPlaying' = isPlaying
          /\ algorithm' = algorithm
          /\ \A t \in timers' : t.period = Period(speed')]_vars

\* the speed was changed during playback
C16_Witness ==
    /\ op = "speedChange"
    /\ pre.isPlaying
    /\ currentStep >= 0
    /\ speed = 2
    /\ \E t \in timers : t.period = 500

-----------------------------------------------------------------------------
(* Properties of the recorders, continued.                                 *)

Recorded == op \in {"bubbleSort", "quickSort"}

\* C17: bubbleSort returns between n(n-1)/2 and 3n(n-1)/2 steps, and none
\* for n <= 1.
C17_BubbleStepCount ==
    op = "bubbleSort" =>
        LET n == Len(array) IN
        /\ 2 * Len(sortSteps) >= n * (n - 1)
        /\ 2 * Len(sortSteps) <= 3 * n * (n - 1)
        /\ n <= 1 => Len(sortSteps) = 0

\* bubbleSort has run on a strictly decreasing input of three elements
C17_Witness ==
    /\ op = "bubbleSort"
    /\ Len(array) = 3
    /\ array[1] > array[2]
    /\ array[2] > array[3]
    /\ Len(sortSteps) = 9

\* C18: no step of either recorder has both comparing and swapping set.
C18_NotBoth ==
    Recorded =>
        \A k \in 1..Len(sortSteps) :
            sortSteps[k].comparing = Null \/ sortSteps[k].swapping = Null

\* a recorder has emitted a comparing step followed by a swapping step
C18_Witness ==
    /\ Recorded
    /\ \E k \in 1..(Len(sortSteps) - 1) :
          /\ sortSteps[k].comparing # Null
          /\ sortSteps[k + 1].swapping # Null

Distinct(pair) == pair = Null \/ pair[1] # pair[2]

\* C19 as stated: every comparing pair and every swapping pair of either
\* recorder consists of two distinct indices.
C19_PairsDistinct ==
    Recorded =>
        \A k \in 1..Len(sortSteps) :
            Distinct(sortSteps[k].comparing) /\ Distinct(sortSteps[k].swapping)

\* C19 as amended: every comparing pair of either recorder and every
\* swapping pair of bubbleSort consists of two distinct indices; a
\* swapping pair (p, q) of quickSort has p <= q.
C19_PairsOrdered ==
    Recorded =>
        \A k \in 1..Len(sortSteps) :
            /\ Distinct(sortSteps[k].comparing)
            /\ op = "bubbleSort" => Distinct(sortSteps[k].swapping)
            /\ sortSteps[k].swapping # Null =>
                  sortSteps[k].swapping[1] <= sortSteps[k].swapping[2]

\* quickSort has announced a swap of an index with itself
C19_Witness ==
    /\ op = "quickSort"
    /\ \E k \in 1..Len(sortSteps) :
          /\ sortSteps[k].swapping # Null
          /\ sortSteps[k].swapping[1] = sortSteps[k].swapping[2]

\* C20: every step of either recorder carries an array of the input's
\* length with the input's multiset of values.
C20_FullSnapshot ==
    Recorded =>
        \A k \in 1..Len(sortSteps) : SameMultiset(sortSteps[k].array, array)

\* a recorder has run on three different values out of order
C20_Witness ==
    /\ Recorded
    /\ Len(array) = 3
    /\ Cardinality({array[k] : k \in 1..3}) = 3
    /\ array[1] > array[3]
    /\ Len(sortSteps) >= 5

\* b is a with the elements at the 0-based indices p and q exchanged
Exchanged(a, b, p, q) ==
    /\ Len(b) = Len(a)
    /\ b[p + 1] = a[q + 1]
    /\ b[q + 1] = a[p + 1]
    /\ \A k \in 1..Len(a) : k \notin {p + 1, q + 1} => b[k] = a[k]

\* C21: the first step of either recorder carries the input array; the step
\* after a swapping step (p, q) carries that step's array with p and q
\* exchanged, and the step after any other step carries the same array.
C21_ArrayEvolves ==
    Recorded =>
        /\ sortSteps # <<>> => sortSteps[1].array = array
        /\ \A k \in 1..(Len(sortSteps) - 1) :
              IF sortSteps[k].swapping # Null
              THEN Exchanged(sortSteps[k].array, sortSteps[k + 1].array,
                             sortSteps[k].swapping[1], sortSteps[k].swapping[2])
              ELSE sortSteps[k + 1].array = sortSteps[k].array

\* a recorder has emitted a swapping step that changed the array, and a
\* later step that did not
C21_Witness ==
    /\ Recorded
    /\ \E k \in 1..(Len(sortSteps) - 2) :
          /\ sortSteps[k].swapping # Null
          /\ sortSteps[k + 1].array # sortSteps[k].array
          /\ sortSteps[k + 2].array = sortSteps[k + 1].array

C23_ViewDerivation ==
    /\ ~renderFault
    /\ IF currentStep \in 0..(Len(sortSteps) - 1)
       THEN /\ currentArray = sortSteps[currentStep + 1].array
            /\ currentComparing = sortSteps[currentStep + 1].comparing
            /\ currentSwapping = sortSteps[currentStep + 1].swapping
       ELSE /\ currentArray = array
            /\ currentComparing = Null
            /\ currentSwapping = Null

\* the render draws a swapping step whose array differs from the base array
C23_Witness ==
    /\ Mounted
    /\ currentStep >= 1
    /\ currentSwapping # Null
    /\ currentArray # array

\* C24: on an array of length 0 or 1 both recorders return no step; with no
\* step the controller is finished at once: currentStep is -1, play()
\* leaves isPlaying false and no tick scheduled, and the render reads no
\* step.
C24_EmptySequence ==
    /\ Len(array) <= 1 => bubbleSort(array) = <<>> /\ quickSort(array) = <<>>
    /\ Mounted /\ sortSteps = <<>> =>
          /\ Finished
          /\ currentStep = -1
          /\ ~isPlaying
          /\ timers = {}
          /\ ~ENABLED Tick
          /\ ~renderFault
          /\ currentArray = array

\* Play has been pressed on an array of one element
C24_Witness ==
    /\ op = "startSort"
    /\ Len(array) = 1
    /\ sortSteps = <<>>
    /\ pre.isPlaying = FALSE


\* the comparing pairs of a step sequence, in order
ComparingPairs(steps) ==
    LET cmp == SelectSeq(steps, LAMBDA s : s.comparing # Null)
    IN  [k \in 1..Len(cmp) |-> cmp[k].comparing]

\* the number of comparisons bubble sort makes on n elements before its
\* pass number p (pass 1 is i = 0, and pass p makes n - p comparisons)
PassStart(n, p) == (p - 1) * (n - 1) - ((p - 1) * (p - 2)) \div 2

\* the comparing pairs of pass number p of bubble sort on n elements
PairsOfPass(steps, n, p) ==
    SubSeq(ComparingPairs(steps), PassStart(n, p) + 1, PassStart(n, p) + n - p)

ScenarioInput == <<5, 3, 1>>

\* the first three steps of the documented scenario
ScenarioOpening ==
    /\ Len(sortSteps) >= 3
    /\ sortSteps[1] = SortStep(<<5, 3, 1>>, <<0, 1>>, Null)
    /\ sortSteps[2] = SortStep(<<5, 3, 1>>, Null, <<0, 1>>)
    /\ sortSteps[3] = SortStep(<<3, 5, 1>>, Null, Null)

\* C25 as stated: bubbleSort([5,3,1]) opens with comparing (0,1) on
\* [5,3,1], swapping (0,1) on [5,3,1] and a cleared step on [3,5,1]; it
\* continues with pass 2 on the indices (1,2); its last array is [1,3,5].
C25_Scenario ==
    op = "bubbleSort" /\ array = ScenarioInput =>
        /\ ScenarioOpening
        /\ PairsOfPass(sortSteps, 3, 2) = << <<1, 2>> >>
        /\ Last(sortSteps).array = <<1, 3, 5>>

\* C25 as amended: bubbleSort([5,3,1]) opens with the same three steps; it
\* continues, still in pass 1, with comparing (1,2) on [3,5,1]; pass 2
\* compares the indices (0,1) only; its last array is [1,3,5].
C25_ScenarioPasses ==
    op = "bubbleSort" /\ array = ScenarioInput =>
        /\ ScenarioOpening
        /\ Len(sortSteps) >= 4
        /\ sortSteps[4] = SortStep(<<3, 5, 1>>, <<1, 2>>, Null)
        /\ ComparingPairs(sortSteps) = << <<0, 1>>, <<1, 2>>, <<0, 1>> >>
        /\ PairsOfPass(sortSteps, 3, 1) = << <<0, 1>>, <<1, 2>> >>
        /\ PairsOfPass(sortSteps, 3, 2) = << <<0, 1>> >>
        /\ Last(sortSteps).array = <<1, 3, 5>>

\* bubbleSort has run on [5,3,1]
C25_Witness ==
    /\ op = "bubbleSort"
    /\ array = ScenarioInput
    /\ Len(sortSteps) = 9


\* C26: the array is replaced only on mount, Generate New Array and a size
\* change; the step sequence only on those and on an algorithm change,
\* which leaves the array alone; Play, Pause, a tick, Next Step and
\* Previous Step (and a speed change) leave the array and the step sequence
\* as they were.
C26_ArrayAndStepsFrame ==
    [][/\ array' # array => op' \in {"mount", "resetArray", "sizeChange"}
       /\ sortSteps' # sortSteps \/ stepsId' # stepsId =>
             op' \in {"mount", "resetArray", "sizeChange", "algorithmChange"}
       /\ op' = "algorithmChange" => array' = array
       /\ op' \in {"startSort", "pauseSort", "tick", "nextStep", "prevStep",
                   "speedChange"} =>
             /\ array' = array
             /\ sortSteps' = sortSteps
             /\ stepsId' = stepsId]_vars

\* Previous Step has been pressed on the steps the chosen recorder returns
\* for the array
C26_Witness ==
    /\ op = "prevStep"
    /\ currentStep >= 1
    /\ pre.currentStep = currentStep + 1
    /\ sortSteps = (IF algorithm = "bubble" THEN bubbleSort(array)
                                             ELSE quickSort(array))


\* the variant's state st is the primed state, and its stored callback
\* closes over the primed arraySize
MemoAgrees(st) ==
    /\ st.array = array'
    /\ st.sortSteps = sortSteps'
    /\ st.stepsId = stepsId'
    /\ st.currentStep = currentStep'
    /\ st.isPlaying = isPlaying'
    /\ st.speed = speed'
    /\ st.algorithm = algorithm'
    /\ st.arraySize = arraySize'
    /\ st.timers = timers'
    /\ st.timeout = timeout'
    /\ st.cbSize = arraySize'

\* C27: the variant keyed on the memoized resetArray, started in the state
\* of the variant keyed on arraySize and given the same command, tick or
\* generated array, ends in the same state (array, sortSteps, currentStep,
\* isPlaying, speed, algorithm, and the timers too), with its callback
\* closed over the current arraySize: so the two agree after every step.
C27_VariantsAgree ==
    [][IF op' = "tick"
       THEN \E t \in timers : \E fin \in {MemoHandle("tick", t)} :
                MemoAgrees(fin)
       ELSE \E fin \in {MemoHandle(op', 0)} : MemoAgrees(fin)]_vars

\* the array size has been changed during playback
C27_Witness ==
    /\ op = "sizeChange"
    /\ pre.isPlaying
    /\ pre.currentStep >= 1
    /\ arraySize = MaxSize


\* a step with both pairs null
Cleared(s) == s.comparing = Null /\ s.swapping = Null

\* the pairs bubble sort compares on n elements from pass i on, in order
RECURSIVE BubblePairs(_, _)
BubblePairs(n, i) ==
    IF i > n - 2 THEN <<>>
    ELSE [j \in 1..(n - i - 1) |-> <<j - 1, j>>] \o BubblePairs(n, i + 1)

\* C28: the comparing steps of bubbleSort announce, in order, the pairs
\* (j, j+1) for i = 0..n-2 and j = 0..n-i-2; a comparing step whose array
\* has array[j] > array[j+1] is followed by a swapping (j, j+1) step on the
\* same array and a cleared step, any other comparing step (equal elements
\* included) directly by the next comparing step or by the end.
C28_BubbleStructure ==
    op = "bubbleSort" =>
        /\ ComparingPairs(sortSteps) = BubblePairs(Len(array), 0)
        /\ sortSteps # <<>> => sortSteps[1].comparing # Null
        /\ \A k \in 1..Len(sortSteps) :
              sortSteps[k].comparing # Null =>
                LET s == sortSteps[k]
                    j == s.comparing[1]
                    atEnd(m) == m = Len(sortSteps)
                                  \/ sortSteps[m + 1].comparing # Null
                IN  /\ s.comparing[2] = j + 1
                    /\ IF s.array[j + 1] > s.array[j + 2]
                       THEN /\ k + 2 <= Len(sortSteps)
                            /\ sortSteps[k + 1]
                                  = SortStep(s.array, Null, <<j, j + 1>>)
                            /\ Cleared(sortSteps[k + 2])
                            /\ atEnd(k + 2)
                       ELSE atEnd(k)

\* bubbleSort has run on two equal elements followed by a smaller one
C28_Witness ==
    /\ op = "bubbleSort"
    /\ Len(array) = 3
    /\ array[1] = array[2]
    /\ array[2] > array[3]
    /\ Len(sortSteps) = 7

\* the number of swapping steps among the first k steps
SwapsBefore(steps, k) ==
    Cardinality({m \in 1..(k - 1) : steps[m].swapping # Null})

\* what C29 says of the partition of [low, high] of array a
PartitionShape(a, low, high) ==
    \E r \in {partition(a, <<>>, low, high)} :
        LET st == r.steps
            n == Len(st)
            pivot == a[high + 1]
            loopSwaps == Cardinality({k \in 1..n : st[k].comparing # Null
                                        /\ st[k].array[st[k].comparing[1] + 1]
                                              <= pivot})
            p == r.pivotIndex
        IN  /\ ComparingPairs(st)
                  = [j \in 1..(high - low) |-> <<low + j - 1, high>>]
            /\ \A k \in 1..n :
                  st[k].comparing # Null =>
                    LET s == st[k]
                        j == s.comparing[1]
                        i == low + SwapsBefore(st, k)
                    IN  /\ s.array[high + 1] = pivot
                        /\ IF s.array[j + 1] <= pivot
                           THEN /\ k + 2 <= n - 2
                                /\ st[k + 1] = SortStep(s.array, Null, <<i, j>>)
                                /\ Cleared(st[k + 2])
                           ELSE st[k + 1].comparing # Null \/ k + 1 = n - 1
            /\ n >= 2
            /\ st[n - 1] = SortStep(st[n - 1].array, Null, <<p, high>>)
            /\ Cleared(st[n])
            /\ SwapsBefore(st, n + 1) = loopSwaps + 1
            /\ p = low + loopSwaps
            /\ st[n].array = r.arr
            /\ r.arr[p + 1] = pivot
            /\ \A k \in low..(p - 1) : r.arr[k + 1] <= pivot
            /\ \A k \in (p + 1)..high : r.arr[k + 1] > pivot

\* C29: in the partition of every subrange [low, high], low < high, of an
\* array: comparing (j, high) steps for j = low..high-1 in order, each on
\* an array holding the pivot at high; after each, a swapping (i, j) step
\* and a cleared step exactly when array[j] <= pivot, i counting those
\* swaps from low; then one swapping (i+1, high) step and a cleared step,
\* which leave the pivot at i+1, [low, i] <= pivot and [i+2, high] > pivot.
C29_PartitionStructure ==
    op = "quickSort" =>
        \A low \in 0..(Len(array) - 1) : \A high \in (low + 1)..(Len(array) - 1) :
            PartitionShape(array, low, high)

\* quickSort has run on an array whose last element has an equal element
\* and a larger one before it
C29_Witness ==
    /\ op = "quickSort"
    /\ Len(array) = 3
    /\ array[1] > array[3]
    /\ array[2] = array[3]
    /\ Len(sortSteps) >= 6

\* the indices a step announces
StepIndices(s) ==
    IF s.comparing # Null THEN {s.comparing[1], s.comparing[2]}
    ELSE IF s.swapping # Null THEN {s.swapping[1], s.swapping[2]}
    ELSE {}

\* what C30 says of quickSortHelper on [low, high] of array a
RecursionOrder(a, low, high) ==
    \E h \in {quickSortHelper(a, <<>>, low, high)} :
        IF low >= high THEN h.steps = <<>> /\ h.arr = a
        ELSE \E r \in {partition(a, <<>>, low, high)} :
             \E l \in {quickSortHelper(r.arr, <<>>, low, r.pivotIndex - 1)} :
             \E g \in {quickSortHelper(l.arr, <<>>, r.pivotIndex + 1, high)} :
                LET n == Len(r.steps)
                    p == r.pivotIndex
                    left(k) == /\ StepIndices(h.steps[k]) # {}
                               /\ StepIndices(h.steps[k]) \subseteq low..(p - 1)
                    right(k) == /\ StepIndices(h.steps[k]) # {}
                                /\ StepIndices(h.steps[k]) \subseteq (p + 1)..high
                IN  /\ Len(h.steps) >= n
                    /\ SubSeq(h.steps, 1, n) = r.steps
                    /\ \A k \in (n + 1)..Len(h.steps) :
                          StepIndices(h.steps[k]) = {} \/ left(k) \/ right(k)
                    /\ \A k1, k2 \in (n + 1)..Len(h.steps) :
                          right(k1) /\ left(k2) => k2 < k1
                    /\ h.steps = r.steps \o l.steps \o g.steps

\* C30: for every subrange of an array, quickSortHelper emits nothing when
\* low >= high, and otherwise the steps of the partition of [low, high],
\* then every step of [low, p-1], then every step of [p+1, high]; and
\* quickSort is quickSortHelper on the whole array.
C30_LeftBeforeRight ==
    op = "quickSort" =>
        /\ \A low \in 0..Len(array) : \A high \in -1..(Len(array) - 1) :
              RecursionOrder(array, low, high)
        /\ sortSteps = quickSortHelper(array, <<>>, 0, Len(array) - 1).steps

\* quickSort has run on five elements whose first partition leaves two on
\* each side of the pivot, both sides out of order
C30_Witness ==
    /\ op = "quickSort"
    /\ Len(array) = 5
    /\ partition(array, <<>>, 0, 4).pivotIndex = 2
    /\ \E k \in 1..Len(sortSteps) : sortSteps[k].swapping = <<0, 1>>
    /\ \E k \in 1..Len(sortSteps) : sortSteps[k].comparing = <<3, 4>>


\* the number of index pairs p < q of a with a[p] > a[q]
Inversions(a) ==
    Cardinality({pq \in (1..Len(a)) \X (1..Len(a)) :
                    pq[1] < pq[2] /\ a[pq[1]] > a[pq[2]]})

IsStrictlyDescending(a) == \A k \in 1..(Len(a) - 1) : a[k] > a[k + 1]

\* C31: bubbleSort on n elements returns n(n-1)/2 + 2 inv steps, inv being
\* the number of inversions of the input; it returns n(n-1)/2 steps exactly
\* on a non-decreasing input and 3n(n-1)/2 exactly on a strictly
\* decreasing one.
C31_BubbleExactCount ==
    op = "bubbleSort" =>
        LET n == Len(array) IN
        /\ 2 * Len(sortSteps) = n * (n - 1) + 4 * Inversions(array)
        /\ 2 * Len(sortSteps) = n * (n - 1) <=> IsAscending(array)
        /\ 2 * Len(sortSteps) = 3 * n * (n - 1) <=> IsStrictlyDescending(array)

\* bubbleSort has run on four elements, two of them equal, with three of
\* the six pairs inverted
C31_Witness ==
    /\ op = "bubbleSort"
    /\ Len(array) = 4
    /\ Cardinality({array[k] : k \in 1..4}) < 4
    /\ Inversions(array) = 3
    /\ Len(sortSteps) = 12

\* what C32 says of the partition of [low, high] of array a: a swap is
\* announced on indices of [low, high] only, and so is the pivot index
PartitionInRange(a, low, high) ==
    \E r \in {partition(a, <<>>, low, high)} :
        /\ r.pivotIndex \in low..high
        /\ \A k \in 1..Len(r.steps) :
              StepIndices(r.steps[k]) \subseteq low..high

\* C32: every index either recorder announces in a comparing or swapping
\* pair is a position of the array, and the partition of a subrange
\* [low, high] announces indices of that subrange only.
C32_IndicesValid ==
    /\ Recorded =>
          \A k \in 1..Len(sortSteps) :
              StepIndices(sortSteps[k]) \subseteq 0..(Len(array) - 1)
    /\ op = "quickSort" =>
          \A low \in 0..(Len(array) - 1) :
              \A high \in (low + 1)..(Len(array) - 1) :
                  PartitionInRange(array, low, high)

\* quickSort has announced a swap of the first position with the last
C32_Witness ==
    /\ op = "quickSort"
    /\ Len(array) >= 3
    /\ \E k \in 1..Len(sortSteps) :
          sortSteps[k].swapping = <<0, Len(array) - 1>>


=============================================================================
